---------------------------- MODULE Spec2Model ----------------------------
(***************************************************************************)
(* A model of imgtools' duplicate remover (src/imgtools/rm_dup.py): the    *)
(* record loader load_img, the hash-bucket grouper group_by_hash, the      *)
(* pairwise deduplicator get_dup, and main, which runs the loader and the  *)
(* deduplicator on two worker pools and then deletes the duplicates.       *)
(*                                                                         *)
(* Conventions.                                                            *)
(*  - A path is a number of 1..MaxFiles; the order of the numbers is the   *)
(*    order pathlib gives the paths.                                       *)
(*  - A Python dict is an association list, a sequence of <<key, value>>   *)
(*    pairs in insertion order, as dict keeps it since Python 3.7.         *)
(*  - A similarity score is held in tenths: SSIM_THRESH = 9 is 0.9.        *)
(*  - A str is a sequence of one-character strings.                        *)
(*  - The decoded image is abstract: a file holds its array shape and the  *)
(*    fingerprint dhash gives it; ssim of two files is a symmetric score   *)
(*    table of the environment.                                            *)
(***************************************************************************)
EXTENDS Integers, Sequences, FiniteSets, TLC

VARIABLES
    files,       \* path -> what the file holds: [ok, shape, fp]
    score,       \* {a, b} -> ssim of the two files, in tenths
    fs,          \* the paths that exist on the filesystem
    args,        \* the command line: [processes, dry_run]
    pc,          \* where main stands (or, for one function, call/returned)
    imgs,        \* main's list of candidate images
    total_proc,  \* main's clamped worker count
    loadTask,    \* phase 1: index of imgs -> "pending" | "running" | "done"
    info,        \* phase 1: the records that have arrived, in arrival order
    info_dict,   \* the buckets: dict fingerprint -> list of paths
    dupTask,     \* phase 2: index of info_dict -> "pending" | "running" | "done"
    to_delete,   \* the merged duplicate map: dict duplicate -> original
    pbar,        \* the progress bar's count of comparisons
    response,    \* what the user typed at the prompt
    unlinked,    \* the paths whose unlink was called, in order
    failed,      \* the paths whose unlink raised
    report,      \* what main printed last
    arg,         \* the argument of a single function call
    ret          \* its result

vars == <<files, score, fs, args, pc, imgs, total_proc, loadTask, info,
          info_dict, dupTask, to_delete, pbar, response, unlinked, failed,
          report, arg, ret>>

mainVars == <<fs, args, imgs, total_proc, loadTask, info, info_dict, dupTask,
              to_delete, pbar, response, unlinked, failed, report>>

---------------------------------------------------------------------------
(* Bounds of the model *)

MaxFiles == 3

MaxDim == 2

NumHashes == 2

(* Program constants *)

PROC_LIMIT == 8

SSIM_THRESH == 9

Paths == 1..MaxFiles

Hashes == 1..NumHashes

\* The scores just below, at and just above the threshold.
Scores == {SSIM_THRESH - 1, SSIM_THRESH, SSIM_THRESH + 1}

\* np.array(img).shape: (h, w) for a greyscale image, (h, w, 3) for RGB.
Shapes == {<<h, w>> : h \in 1..MaxDim, w \in 1..MaxDim}
          \cup {<<h, w, 3>> : h \in 1..MaxDim, w \in 1..MaxDim}

BadFile == [ok |-> FALSE, shape |-> <<>>, fp |-> 0]

Contents == [ok : {TRUE}, shape : Shapes, fp : Hashes] \cup {BadFile}

Pairs(S) == {{a, b} : a \in S, b \in S} \ {{a} : a \in S}

---------------------------------------------------------------------------
(* Python's dict, list and str *)

RECURSIVE DictHas(_, _)
DictHas(d, k) ==
    IF d = <<>> THEN FALSE
    ELSE IF Head(d)[1] = k THEN TRUE ELSE DictHas(Tail(d), k)

RECURSIVE DictGet(_, _)
DictGet(d, k) ==
    IF Head(d)[1] = k THEN Head(d)[2] ELSE DictGet(Tail(d), k)

\* d[k] = v: a new key goes last, a key already there keeps its place.
RECURSIVE DictSet(_, _, _)
DictSet(d, k, v) ==
    IF d = <<>> THEN << <<k, v>> >>
    ELSE IF Head(d)[1] = k THEN << <<k, v>> >> \o Tail(d)
    ELSE <<Head(d)>> \o DictSet(Tail(d), k, v)

RECURSIVE DictUpdate(_, _)
DictUpdate(d, other) ==
    IF other = <<>> THEN d
    ELSE DictUpdate(DictSet(d, Head(other)[1], Head(other)[2]), Tail(other))

Keys(d) == {d[i][1] : i \in DOMAIN d}

Values(d) == {d[i][2] : i \in DOMAIN d}

Range(s) == {s[i] : i \in DOMAIN s}

RECURSIVE Product(_)
Product(s) == IF s = <<>> THEN 1 ELSE Head(s) * Product(Tail(s))

---------------------------------------------------------------------------
(* load_img *)

\* dhash of the decoded image: the fingerprint the file's pixels give.
dhash(img) == img.fp

load_img(path) ==
    LET img == files[path] IN
    IF ~img.ok THEN <<>>
    ELSE <<path, dhash(img), Product(img.shape)>>

---------------------------------------------------------------------------
(* group_by_hash *)

\* Faulty variant: an order on the sizes alone (a sort with key=size).
TupleLessSizeOnly(a, b) == a[1] < b[1]

\* Python's order on (size, path) tuples.
TupleLess(a, b) == a[1] < b[1] \/ (a[1] = b[1] /\ a[2] < b[2])

RECURSIVE InsertDesc(_, _)
InsertDesc(x, s) ==
    IF s = <<>> THEN <<x>>
    ELSE IF TupleLess(Head(s), x) THEN <<x>> \o s
    ELSE <<Head(s)>> \o InsertDesc(x, Tail(s))

\* Faulty variant: list.sort() without reverse=True.
RECURSIVE InsertAsc(_, _)
InsertAsc(x, s) ==
    IF s = <<>> THEN <<x>>
    ELSE IF TupleLess(x, Head(s)) THEN <<x>> \o s
    ELSE <<Head(s)>> \o InsertAsc(x, Tail(s))

RECURSIVE SortForward(_)
SortForward(s) ==
    IF s = <<>> THEN <<>>
    ELSE InsertAsc(s[Len(s)], SortForward(SubSeq(s, 1, Len(s) - 1)))

\* list.sort(reverse=True): descending, equal elements in their first order.
RECURSIVE SortReverse(_)
SortReverse(s) ==
    IF s = <<>> THEN <<>>
    ELSE InsertDesc(s[Len(s)], SortReverse(SubSeq(s, 1, Len(s) - 1)))

\* The first loop: temp_dict, fingerprint -> list of (size, path).
RECURSIVE FillTemp(_, _)
FillTemp(temp_dict, records) ==
    IF records = <<>> THEN temp_dict
    ELSE LET path == Head(records)[1]
             img_hash == Head(records)[2]
             size == Head(records)[3]
         IN  IF DictHas(temp_dict, img_hash)
             THEN FillTemp(DictSet(temp_dict, img_hash,
                              Append(DictGet(temp_dict, img_hash), <<size, path>>)),
                           Tail(records))
             ELSE FillTemp(DictSet(temp_dict, img_hash, << <<size, path>> >>),
                           Tail(records))

\* The second loop: sort each bucket and keep the paths.
SortBuckets(temp_dict) ==
    [i \in DOMAIN temp_dict |->
        LET sorted == SortReverse(temp_dict[i][2])
        IN  <<temp_dict[i][1], [k \in DOMAIN sorted |-> sorted[k][2]]>>]

group_by_hash(records) == SortBuckets(FillTemp(<<>>, records))

---------------------------------------------------------------------------
(* get_dup *)

ssim(first, second) == score[{first, second}]

\* Faulty variant: line 97 missing, a flagged member is an anchor again.
SkipAnchorNever(first, duplicates) == FALSE

SkipAnchor(first, duplicates) == DictHas(duplicates, first)

\* Faulty variant: line 102 missing, a flagged member is compared again.
SkipSecondNever(second, duplicates) == FALSE

SkipSecond(second, duplicates) == DictHas(duplicates, second)

\* Line 107 compares with the module constant, not with ssim_thresh.
IsDuplicate(first, second, ssim_thresh) == ssim(first, second) > SSIM_THRESH

RECURSIVE InnerLoop(_, _, _, _, _)
InnerLoop(bucket, i, j, duplicates, ssim_thresh) ==
    IF j > Len(bucket) THEN duplicates
    ELSE IF SkipSecond(bucket[j], duplicates)
         THEN InnerLoop(bucket, i, j + 1, duplicates, ssim_thresh)
    ELSE IF IsDuplicate(bucket[i], bucket[j], ssim_thresh)
         THEN InnerLoop(bucket, i, j + 1,
                        DictSet(duplicates, bucket[j], bucket[i]), ssim_thresh)
    ELSE InnerLoop(bucket, i, j + 1, duplicates, ssim_thresh)

RECURSIVE OuterLoop(_, _, _, _)
OuterLoop(bucket, i, duplicates, ssim_thresh) ==
    IF i > Len(bucket) THEN duplicates
    ELSE IF SkipAnchor(bucket[i], duplicates)
         THEN OuterLoop(bucket, i + 1, duplicates, ssim_thresh)
    ELSE OuterLoop(bucket, i + 1,
                   InnerLoop(bucket, i, i + 1, duplicates, ssim_thresh),
                   ssim_thresh)

get_dup(bucket, ssim_thresh) ==
    <<OuterLoop(bucket, 1, <<>>, ssim_thresh),
      (Len(bucket) * (Len(bucket) - 1)) \div 2>>

---------------------------------------------------------------------------
(* main: the run of rmdup *)

\* The directories of the model: the files 1..n, each a one-pixel image,
\* greyscale or RGB, or a file PIL cannot open. Every file passes main's
\* filter (a regular file, not hidden, with an image extension).
DirShapes == {s \in Shapes : s[1] = 1 /\ s[2] = 1}

\* Two fingerprints: the files of a directory fall into at most two buckets.
DirHashes == {1, 2}

DirContents == [ok : {TRUE}, shape : DirShapes, fp : DirHashes] \cup {BadFile}

\* main compares two files only when both decode to one fingerprint; the
\* other entries of the score table are never read and stand at the threshold.
\* The table is the environment's and main first reads it in phase 2: the
\* model draws it when phase 2 starts.
Comparable(f, pair) ==
    \A p \in pair : f[p].ok /\ \A q \in pair : f[p].fp = f[q].fp

DirScores(f) ==
    {t \in [Pairs(DOMAIN f) -> {SSIM_THRESH, SSIM_THRESH + 1}] :
        \A pair \in Pairs(DOMAIN f) : ~Comparable(f, pair) => t[pair] = SSIM_THRESH}

\* --processes: below the range, zero, one worker, above the limit.
ProcessChoices == {-1, 0, 1, PROC_LIMIT + 1}

\* What the user may type at the prompt.
Responses == {<<"Y", " ">>, <<"y", "e", "s">>, <<>>}

NoReport == [msg |-> "", n |-> 0]

Init ==
    /\ \E n \in 0..MaxFiles : files \in [1..n -> DirContents]
    /\ score = <<>>
    /\ fs = DOMAIN files
    /\ args \in [processes : ProcessChoices, dry_run : BOOLEAN]
    /\ pc = "start"
    /\ imgs = <<>>
    /\ total_proc = 0
    /\ loadTask = <<>>
    /\ info = <<>>
    /\ info_dict = <<>>
    /\ dupTask = <<>>
    /\ to_delete = <<>>
    /\ pbar = 0
    /\ response = <<>>
    /\ unlinked = <<>>
    /\ failed = {}
    /\ report = NoReport
    /\ arg = <<>>
    /\ ret = <<>>

Max2(a, b) == IF a > b THEN a ELSE b

Min2(a, b) == IF a < b THEN a ELSE b

Clamp(processes) == Min2(Max2(processes, 0), PROC_LIMIT)

\* multiprocessing.Pool(n) raises ValueError when n < 1.
PoolRaises(n) == n < 1

\* The candidate list: the files of the directory.
Glob == [i \in 1..Cardinality(fs) |-> i]

Running(tasks) == Cardinality({t \in DOMAIN tasks : tasks[t] = "running"})

\* Faulty variant: the iterator ends with the first result.
ExhaustedEarly(tasks) == \E t \in DOMAIN tasks : tasks[t] = "done"

\* The iterator of a pool's results ends when every task's result has come.
Exhausted(tasks) == \A t \in DOMAIN tasks : tasks[t] = "done"

env == <<files, args, arg, ret>>

\* Lines 119-129: fewer than two candidates, a warning and nothing else.
TooFewImages ==
    /\ pc = "start"
    /\ Len(Glob) < 2
    /\ imgs' = Glob
    /\ report' = [msg |-> "warn", n |-> 0]
    /\ pc' = "done"
    /\ UNCHANGED <<env, score, fs, total_proc, loadTask, info, info_dict, dupTask,
                   to_delete, pbar, response, unlinked, failed>>

\* Lines 132-134 with a clamped count the pool refuses.
PoolRefused ==
    /\ pc = "start"
    /\ Len(Glob) >= 2
    /\ PoolRaises(Clamp(args.processes))
    /\ imgs' = Glob
    /\ total_proc' = Clamp(args.processes)
    /\ pc' = "ValueError"
    /\ UNCHANGED <<env, score, fs, loadTask, info, info_dict, dupTask, to_delete,
                   pbar, response, unlinked, failed, report>>

\* Lines 132-141: the first pool is up and every load task is queued.
StartLoading ==
    /\ pc = "start"
    /\ Len(Glob) >= 2
    /\ ~PoolRaises(Clamp(args.processes))
    /\ imgs' = Glob
    /\ total_proc' = Clamp(args.processes)
    /\ loadTask' = [i \in DOMAIN Glob |-> "pending"]
    /\ pc' = "loading"
    /\ UNCHANGED <<env, score, fs, info, info_dict, dupTask, to_delete, pbar,
                   response, unlinked, failed, report>>

\* A free worker takes a load task. The queue holds imgs in glob's order,
\* which is the file system's: any pending task may be the next one.
LoadStart(t) ==
    /\ pc = "loading"
    /\ loadTask[t] = "pending"
    /\ Running(loadTask) < total_proc
    /\ loadTask' = [loadTask EXCEPT ![t] = "running"]
    /\ UNCHANGED <<env, score, fs, pc, imgs, total_proc, info, info_dict, dupTask,
                   to_delete, pbar, response, unlinked, failed, report>>

\* A load task ends and main's filter takes its result: None is dropped.
LoadFinish(t) ==
    /\ pc = "loading"
    /\ loadTask[t] = "running"
    /\ loadTask' = [loadTask EXCEPT ![t] = "done"]
    /\ info' = IF load_img(imgs[t]) = <<>> THEN info
               ELSE Append(info, load_img(imgs[t]))
    /\ UNCHANGED <<env, score, fs, pc, imgs, total_proc, info_dict, dupTask,
                   to_delete, pbar, response, unlinked, failed, report>>

\* Lines 147-158: the results are exhausted, group_by_hash sorts the
\* buckets, the first pool is closed and the second one gets a task a bucket.
StartDedup ==
    /\ pc = "loading"
    /\ Exhausted(loadTask)
    /\ score' \in DirScores(files)
    /\ info_dict' = group_by_hash(info)
    /\ info' = <<>>
    /\ dupTask' = [k \in DOMAIN group_by_hash(info) |-> "pending"]
    /\ pc' = "dedup"
    /\ UNCHANGED <<env, fs, imgs, total_proc, loadTask, to_delete, pbar,
                   response, unlinked, failed, report>>

\* A free worker takes the next bucket of info_dict.values().
DupStart(k) ==
    /\ pc = "dedup"
    /\ dupTask[k] = "pending"
    /\ \A h \in 1..(k - 1) : dupTask[h] # "pending"
    /\ Running(dupTask) < total_proc
    /\ dupTask' = [dupTask EXCEPT ![k] = "running"]
    /\ UNCHANGED <<env, score, fs, pc, imgs, total_proc, loadTask, info, info_dict,
                   to_delete, pbar, response, unlinked, failed, report>>

\* Lines 158-160: a fragment arrives and is merged.
DupFinish(k) ==
    /\ pc = "dedup"
    /\ dupTask[k] = "running"
    /\ dupTask' = [dupTask EXCEPT ![k] = "done"]
    /\ LET res == get_dup(info_dict[k][2], SSIM_THRESH)
       IN  /\ pbar' = pbar + res[2]
           /\ to_delete' = DictUpdate(to_delete, res[1])
    /\ UNCHANGED <<env, score, fs, pc, imgs, total_proc, loadTask, info, info_dict,
                   response, unlinked, failed, report>>

\* Lines 162-164: nothing to delete.
NoDuplicates ==
    /\ pc = "dedup"
    /\ Exhausted(dupTask)
    /\ Len(to_delete) = 0
    /\ report' = [msg |-> "No duplicates found", n |-> 0]
    /\ pc' = "done"
    /\ UNCHANGED <<env, score, fs, imgs, total_proc, loadTask, info, info_dict,
                   dupTask, to_delete, pbar, response, unlinked, failed>>

\* Lines 166-174: the listing is printed and the prompt waits.
Preview ==
    /\ pc = "dedup"
    /\ Exhausted(dupTask)
    /\ Len(to_delete) # 0
    /\ args.dry_run
    /\ report' = [msg |-> "DUPLICATE --> ORIGINAL", n |-> Len(to_delete)]
    /\ pc' = "prompt"
    /\ UNCHANGED <<env, score, fs, imgs, total_proc, loadTask, info, info_dict,
                   dupTask, to_delete, pbar, response, unlinked, failed>>

\* Line 166 without --dry-run.
StartDeleting ==
    /\ pc = "dedup"
    /\ Exhausted(dupTask)
    /\ Len(to_delete) # 0
    /\ ~args.dry_run
    /\ pc' = "deleting"
    /\ UNCHANGED <<env, score, fs, imgs, total_proc, loadTask, info, info_dict,
                   dupTask, to_delete, pbar, response, unlinked, failed,
                   report>>

Whitespace == {" ", "\t", "\n"}

RECURSIVE LStrip(_)
LStrip(s) ==
    IF s # <<>> /\ Head(s) \in Whitespace THEN LStrip(Tail(s)) ELSE s

RECURSIVE RStrip(_)
RStrip(s) ==
    IF s # <<>> /\ s[Len(s)] \in Whitespace
    THEN RStrip(SubSeq(s, 1, Len(s) - 1)) ELSE s

Strip(s) == RStrip(LStrip(s))

LowerChar(c) ==
    CASE c = "Y" -> "y" [] c = "E" -> "e" [] c = "S" -> "s" [] c = "N" -> "n"
      [] OTHER -> c

Lower(s) == [i \in DOMAIN s |-> LowerChar(s[i])]

\* Faulty variant: the answer is not looked at.
DeclinedNever(r) == FALSE

\* Line 175
Declined(r) == Lower(Strip(r)) # <<"y">>

\* Lines 174-176
Answer(r) ==
    /\ pc = "prompt"
    /\ response' = r
    /\ pc' = IF Declined(r) THEN "done" ELSE "deleting"
    /\ UNCHANGED <<env, score, fs, imgs, total_proc, loadTask, info, info_dict,
                   dupTask, to_delete, pbar, unlinked, failed, report>>

\* The key the deletion loop stands at.
NextKey == to_delete[Len(unlinked) + 1][1]

\* Lines 178-179: unlink removes the file.
UnlinkDone ==
    /\ pc = "deleting"
    /\ Len(unlinked) < Len(to_delete)
    /\ fs' = fs \ {NextKey}
    /\ unlinked' = Append(unlinked, NextKey)
    /\ UNCHANGED <<env, score, pc, imgs, total_proc, loadTask, info, info_dict,
                   dupTask, to_delete, pbar, response, failed, report>>

\* Lines 178-179: unlink raises OSError (no permission, the file is gone),
\* nothing catches it and main ends there.
UnlinkRaises ==
    /\ pc = "deleting"
    /\ Len(unlinked) < Len(to_delete)
    /\ unlinked' = Append(unlinked, NextKey)
    /\ failed' = failed \cup {NextKey}
    /\ pc' = "OSError"
    /\ UNCHANGED <<env, score, fs, imgs, total_proc, loadTask, info, info_dict,
                   dupTask, to_delete, pbar, response, report>>

\* Line 180
Deleted ==
    /\ pc = "deleting"
    /\ Len(unlinked) = Len(to_delete)
    /\ report' = [msg |-> "Deleted", n |-> Len(to_delete)]
    /\ pc' = "done"
    /\ UNCHANGED <<env, score, fs, imgs, total_proc, loadTask, info, info_dict,
                   dupTask, to_delete, pbar, response, unlinked, failed>>

Next ==
    \/ TooFewImages
    \/ PoolRefused
    \/ StartLoading
    \/ \E t \in DOMAIN loadTask : LoadStart(t)
    \/ \E t \in DOMAIN loadTask : LoadFinish(t)
    \/ StartDedup
    \/ \E k \in DOMAIN dupTask : DupStart(k)
    \/ \E k \in DOMAIN dupTask : DupFinish(k)
    \/ NoDuplicates
    \/ Preview
    \/ StartDeleting
    \/ \E r \in Responses : Answer(r)
    \/ UnlinkDone
    \/ UnlinkRaises
    \/ Deleted

Spec == Init /\ [][Next]_vars

---------------------------------------------------------------------------
(* The functions on their own: one call of each, on every input of the     *)
(* bounds.                                                                 *)

MaxSize == 2

Sizes == 1..MaxSize

\* The lists of distinct paths.
PathLists ==
    UNION {{s \in [1..n -> Paths] : \A i, j \in 1..n : i # j => s[i] # s[j]}
           : n \in 0..MaxFiles}

ScoreTables == [Pairs(Paths) -> Scores]

MainIdle ==
    /\ fs = {}
    /\ args = [processes |-> 0, dry_run |-> FALSE]
    /\ imgs = <<>>
    /\ total_proc = 0
    /\ loadTask = <<>>
    /\ info = <<>>
    /\ info_dict = <<>>
    /\ dupTask = <<>>
    /\ to_delete = <<>>
    /\ pbar = 0
    /\ response = <<>>
    /\ unlinked = <<>>
    /\ failed = {}
    /\ report = NoReport

\* get_dup(info, ssim_thresh=t)
InitDup ==
    /\ MainIdle
    /\ files = <<>>
    /\ score \in ScoreTables
    /\ arg \in [info : PathLists, ssim_thresh : Scores]
    /\ ret = <<>>
    /\ pc = "call"

CallGetDup ==
    /\ pc = "call"
    /\ ret' = get_dup(arg.info, arg.ssim_thresh)
    /\ pc' = "returned"
    /\ UNCHANGED <<files, score, arg, mainVars>>

SpecDup == InitDup /\ [][CallGetDup]_vars

\* group_by_hash(info), info an iterator of records of distinct paths in any
\* order
InitGroup ==
    /\ MainIdle
    /\ files = <<>>
    /\ score = <<>>
    /\ \E b \in PathLists : \E h \in [DOMAIN b -> Hashes] :
          \E z \in [DOMAIN b -> Sizes] :
             arg = [i \in DOMAIN b |-> <<b[i], h[i], z[i]>>]
    /\ ret = <<>>
    /\ pc = "call"

CallGroupByHash ==
    /\ pc = "call"
    /\ ret' = group_by_hash(arg)
    /\ pc' = "returned"
    /\ UNCHANGED <<files, score, arg, mainVars>>

SpecGroup == InitGroup /\ [][CallGroupByHash]_vars

\* load_img on every file of a directory, then group_by_hash on the records
RECURSIVE Loaded(_)
Loaded(paths) ==
    IF paths = <<>> THEN <<>>
    ELSE LET r == load_img(Head(paths))
         IN  IF r = <<>> THEN Loaded(Tail(paths))
             ELSE <<r>> \o Loaded(Tail(paths))

InitLoad ==
    /\ MainIdle
    /\ files \in [Paths -> Contents]
    /\ score = <<>>
    /\ arg = [p \in Paths |-> p]
    /\ ret = <<>>
    /\ pc = "call"

CallLoadImg ==
    /\ pc = "call"
    /\ ret' = [records |-> Loaded(arg), buckets |-> group_by_hash(Loaded(arg))]
    /\ pc' = "returned"
    /\ UNCHANGED <<files, score, arg, mainVars>>

SpecLoad == InitLoad /\ [][CallLoadImg]_vars

---------------------------------------------------------------------------
(* Properties of group_by_hash (SpecGroup: arg is the records, ret the     *)
(* buckets)                                                                *)

ArgPaths == {arg[i][1] : i \in DOMAIN arg}

ArgHash(p) == arg[CHOOSE i \in DOMAIN arg : arg[i][1] = p][2]

ArgSize(p) == arg[CHOOSE i \in DOMAIN arg : arg[i][1] = p][3]

\* Two records share a bucket exactly when their fingerprints are equal, and
\* the buckets hold every path once, under its fingerprint.
PartitionedByHash ==
    /\ \A p \in ArgPaths : \E k \in DOMAIN ret : p \in Range(ret[k][2])
    /\ \A k \in DOMAIN ret :
          /\ Range(ret[k][2]) \subseteq ArgPaths
          /\ Cardinality(Range(ret[k][2])) = Len(ret[k][2])
          /\ \A p \in Range(ret[k][2]) : ArgHash(p) = ret[k][1]
    /\ \A p, q \in ArgPaths :
          (\E k \in DOMAIN ret : {p, q} \subseteq Range(ret[k][2]))
              <=> ArgHash(p) = ArgHash(q)

\* C1 as claimed: group_by_hash buckets the records by equal fingerprint and
\* orders every bucket by pixel count descending, ties by path ASCENDING.
C1_TiesByPathAscending ==
    pc = "returned" =>
        /\ PartitionedByHash
        /\ \A k \in DOMAIN ret : \A i, j \in DOMAIN ret[k][2] :
              i < j =>
                 LET p == ret[k][2][i]
                     q == ret[k][2][j]
                 IN  \/ ArgSize(p) > ArgSize(q)
                     \/ (ArgSize(p) = ArgSize(q) /\ p < q)

\* C1 amended: group_by_hash buckets the records by equal fingerprint and
\* orders every bucket by pixel count descending, ties by path DESCENDING
\* (the (size, path) tuples are sorted in reverse).
C1_TiesByPathDescending ==
    pc = "returned" =>
        /\ PartitionedByHash
        /\ \A k \in DOMAIN ret : \A i, j \in DOMAIN ret[k][2] :
              i < j =>
                 LET p == ret[k][2][i]
                     q == ret[k][2][j]
                 IN  \/ ArgSize(p) > ArgSize(q)
                     \/ (ArgSize(p) = ArgSize(q) /\ p > q)

\* Two buckets, one of them holding two records of equal pixel count that
\* arrived in ascending path order and leave in descending path order.
C1_Witness ==
    /\ pc = "returned"
    /\ Len(ret) = 2
    /\ \E k \in DOMAIN ret : \E i, j \in DOMAIN arg :
          /\ i < j
          /\ arg[i][1] < arg[j][1]
          /\ arg[i][3] = arg[j][3]
          /\ ret[k][2] = <<arg[j][1], arg[i][1]>>

---------------------------------------------------------------------------
(* Properties of load_img (SpecLoad: files is the directory, ret the       *)
(* records and their buckets)                                              *)

Spatial(p) == files[p].shape[1] * files[p].shape[2]

\* C5: the pixel count load_img records is height x width of the decoded
\* image whatever its channels, so that no bucket puts an image of larger
\* height x width after a smaller one.
C5_PixelsAreHeightTimesWidth ==
    pc = "returned" =>
        /\ \A i \in DOMAIN ret.records :
              ret.records[i][3] = Spatial(ret.records[i][1])
        /\ \A k \in DOMAIN ret.buckets : \A i, j \in DOMAIN ret.buckets[k][2] :
              i < j => Spatial(ret.buckets[k][2][i]) >= Spatial(ret.buckets[k][2][j])

---------------------------------------------------------------------------
(* Properties of get_dup (SpecDup: arg.info is the bucket, ret the map and *)
(* the comparison count)                                                   *)

Flagged(j) == DictHas(ret[1], arg.info[j])

\* The members before j that were never flagged and are more similar to j
\* than thresh.
Anchors(j, thresh) ==
    {i \in 1..(j - 1) : ~Flagged(i) /\ score[{arg.info[i], arg.info[j]}] > thresh}

Min(S) == CHOOSE x \in S : \A y \in S : x <= y

\* The greedy star-shaped map for a threshold: j is a key exactly when some
\* earlier, never flagged member is more similar to it than thresh, and its
\* value is the earliest such member.
StarMap(thresh) ==
    /\ Keys(ret[1]) \subseteq Range(arg.info)
    /\ Cardinality(Keys(ret[1])) = Len(ret[1])
    /\ \A j \in DOMAIN arg.info :
          IF Anchors(j, thresh) = {} THEN ~Flagged(j)
          ELSE /\ Flagged(j)
               /\ DictGet(ret[1], arg.info[j]) = arg.info[Min(Anchors(j, thresh))]

\* C4: the threshold get_dup is called with decides: j is marked a duplicate
\* of the anchor i exactly when similarity(i, j) > ssim_thresh.
C4_SuppliedThresholdDecides ==
    pc = "returned" => StarMap(arg.ssim_thresh)

\* C6: get_dup returns the greedy star-shaped map: every original stands
\* before its duplicate and is the earliest never-flagged member more similar
\* to it than the duplicate threshold, and a flagged member is never an
\* original.
C6_GreedyStarMap ==
    pc = "returned" =>
        /\ StarMap(SSIM_THRESH)
        /\ Keys(ret[1]) \cap Values(ret[1]) = {}
        /\ \A j \in DOMAIN arg.info :
              Flagged(j) =>
                 \E i \in 1..(j - 1) : arg.info[i] = DictGet(ret[1], arg.info[j])

\* [A, B, C] with A~B and B~C but not A~C: B is flagged, C is not.
C6_Witness ==
    /\ pc = "returned"
    /\ Len(arg.info) = 3
    /\ score[{arg.info[1], arg.info[2]}] > SSIM_THRESH
    /\ score[{arg.info[2], arg.info[3]}] > SSIM_THRESH
    /\ score[{arg.info[1], arg.info[3]}] <= SSIM_THRESH
    /\ ret[1] = << <<arg.info[2], arg.info[1]>> >>

---------------------------------------------------------------------------
(* Properties of main (Spec)                                               *)

Dir == DOMAIN files

AllDone(tasks) == \A t \in DOMAIN tasks : tasks[t] = "done"

\* C2: main clamps the worker count into [0, 8] and runs to the end for
\* every clamped count, 0 included: no run stops at the pool's ValueError.
C2_ZeroWorkersIsNoError ==
    /\ total_proc \in 0..PROC_LIMIT
    /\ pc # "ValueError"

\* C3: an unlink that fails does not stop the deletion: when main ends, every
\* key of the map whose unlink did not fail has been unlinked and is gone.
C3_FailureDoesNotAbort ==
    (pc \in {"done", "OSError"} /\ unlinked # <<>>) =>
        \A p \in Keys(to_delete) \ failed : p \in Range(unlinked) /\ p \notin fs

\* "y" in either case, with blanks around it.
IsYes(r) ==
    \E i \in DOMAIN r :
        /\ r[i] \in {"y", "Y"}
        /\ \A j \in DOMAIN r \ {i} : r[j] \in Whitespace

\* C7: a file is gone only if it is a key of the merged map and, under
\* --dry-run, the answer was yes; with fewer than two images, with an empty
\* map or with another answer the filesystem is as it was.
C7_RemovedOnlyIfConfirmedDuplicate ==
    /\ fs \subseteq Dir
    /\ \A p \in Dir \ fs :
          /\ p \in Keys(to_delete)
          /\ args.dry_run => IsYes(response)
    /\ Cardinality(Dir) < 2 => fs = Dir
    /\ (pc = "done" /\ to_delete = <<>>) => fs = Dir
    /\ (pc = "done" /\ args.dry_run /\ ~IsYes(response)) => fs = Dir

\* A dry run whose prompt was answered with yes has removed a file.
C7_Witness ==
    /\ pc = "done"
    /\ args.dry_run
    /\ IsYes(response)
    /\ fs # Dir

\* Every file of imgs that decodes is in a bucket.
BucketsBuilt ==
    UNION {Range(info_dict[k][2]) : k \in DOMAIN info_dict}
        = {p \in Range(imgs) : files[p].ok}

\* C8: no dedup task starts before every load task is done and the buckets
\* are built, no file is unlinked before every dedup task is done, the
\* unlinks are the only changes of the filesystem, and no task runs once a
\* file has been unlinked.
C8_PhaseBarriers ==
    /\ (\E k \in DOMAIN dupTask : dupTask[k] # "pending") =>
          AllDone(loadTask) /\ BucketsBuilt
    /\ unlinked # <<>> => AllDone(loadTask) /\ AllDone(dupTask)
    /\ Running(loadTask) + Running(dupTask) > 0 =>
          fs = Dir /\ unlinked = <<>>
    /\ fs = Dir \ (Range(unlinked) \ failed)

\* A file is unlinked after two buckets were deduplicated by several workers.
C8_Witness ==
    /\ pc = "deleting"
    /\ unlinked # <<>>
    /\ total_proc > 1
    /\ Len(dupTask) = 2

\* The buckets and the map of a run whose results arrive in path order.
CanonicalBuckets == group_by_hash(Loaded(imgs))

RECURSIVE MergeAll(_)
MergeAll(buckets) ==
    IF buckets = <<>> THEN <<>>
    ELSE DictUpdate(get_dup(Head(buckets)[2], SSIM_THRESH)[1],
                    MergeAll(Tail(buckets)))

Fragment(k) == get_dup(info_dict[k][2], SSIM_THRESH)[1]

RECURSIVE SumLen(_)
SumLen(S) ==
    IF S = {} THEN 0
    ELSE LET k == CHOOSE x \in S : TRUE
         IN  Len(Fragment(k)) + SumLen(S \ {k})

C10_OriginalsAreKept ==
    /\ Keys(to_delete) \cap Values(to_delete) = {}
    /\ \A i \in DOMAIN to_delete :
          /\ to_delete[i][1] # to_delete[i][2]
          /\ load_img(to_delete[i][2])[3] >= load_img(to_delete[i][1])[3]
    /\ \A k \in DOMAIN info_dict :
          /\ info_dict[k][2] # <<>>
          /\ info_dict[k][2][1] \in fs
    /\ report.msg = "Deleted" =>
          \A i \in DOMAIN to_delete :
              to_delete[i][1] \notin fs /\ to_delete[i][2] \in fs

\* All deletions succeeded; one original, larger than one of its duplicates,
\* kept two of them.
C10_Witness ==
    /\ report.msg = "Deleted"
    /\ \E i, j \in DOMAIN to_delete :
          /\ i # j
          /\ to_delete[i][2] = to_delete[j][2]
          /\ load_img(to_delete[i][2])[3] > load_img(to_delete[i][1])[3]

=============================================================================
